---- MODULE Spec2Model ----
(***************************************************************************)
(* Trust Center link-key storage of zigpy-znp (zigpy_znp/znp/security.py): *)
(* the rotate-XOR key derivation, the seed optimizer, read_devices /       *)
(* write_devices over the coprocessor's NVRAM tables, and the Trust Center *)
(* frame counter.                                                          *)
(*                                                                         *)
(* Byte strings (bytes, t.KeyData, serialized t.EUI64) are sequences of    *)
(* integers 0..255 and are compared by content.  Python's None is NoKey /  *)
(* NoSeed (the empty sequence, which is also falsy in Python) for byte     *)
(* strings and None (-1) for integers.  The firmware version 1.2 / 3.0 /   *)
(* 3.30 is written 120 / 300 / 330.                                        *)
(***************************************************************************)
EXTENDS Integers, Sequences, FiniteSets, TLC

VARIABLES
    cipher,     \* the key derivation engine applied to one drawn input: a key, or a
                \* list of (address, key) pairs handed to the seed optimizer
    version,    \* app._znp.version
    nv,         \* NVRAM: the items and tables security.py reads and writes
    refused,    \* the NVRAM items whose read the firmware refuses (SecurityError)
    nv0,        \* NVRAM as it was when write_devices was called
    call,       \* the arguments of the write_devices call in progress
    built,      \* the tables write_devices has built in memory
    pc,         \* where write_devices stands
    writeLog,   \* the NVRAM items written by write_devices, in order
    result,     \* what the last read_devices returned or raised
    tc          \* the Trust Center frame counter: the network security material in
                \* NVRAM, and the write and the read made of it

vars == <<cipher, version, nv, refused, nv0, call, built, pc, writeLog, result, tc>>

\* ------------------------------------------------------------------ bounds

\* how many seeds, addresses the key derivation engine is exercised on
NumSeeds == 5
NumIeees == 2

\* the (address, key) pairs the seed optimizer may be handed, and how many at once
NumPairs == 5
MaxPairs == 3

\* the devices write_devices may be handed, and how many of them at once
NumDevices == 5
MaxDevices == 4

\* how many address slots read_devices finds filled in by the firmware
ReadSlots == 2

\* how many entries the network security material table has at most
MaxEntries == 3

\* the capacities the firmware gave the tables (entries)
AddrCap == 4
TclkCap == 3
KeyCap == 2
LinkCap == 2

\* ------------------------------------------------------------------ bytes

KeyLen == 16
IeeeLen == 8
None == -1
NoKey == << >>
NoSeed == << >>

RECURSIVE XorInt(_, _)
XorInt(a, b) ==
    IF a = 0 THEN b
    ELSE IF b = 0 THEN a
    ELSE (((a % 2) + (b % 2)) % 2) + 2 * XorInt(a \div 2, b \div 2)

XorTable == [a \in 0..255 |-> [b \in 0..255 |-> XorInt(a, b)]]

\* Python's a ^ b on two bytes
Xor(a, b) == XorTable[a][b]

Min(a, b) == IF a < b THEN a ELSE b
Max(a, b) == IF a > b THEN a ELSE b

\* The position a Python slice bound n denotes in a list of length len
SliceBound(n, len) == IF n < 0 THEN Max(n + len, 0) ELSE Min(n, len)

\* zip(a, b): pairs up to the shorter of the two
ZipXor(a, b) == [i \in 1..Min(Len(a), Len(b)) |-> Xor(a[i], b[i])]

\* ------------------------------------------------------------------ key derivation

\* lst[n:] + lst[:n]
rotate(lst, n) ==
    LET k == SliceBound(n, Len(lst))
    IN  SubSeq(lst, k + 1, Len(lst)) \o SubSeq(lst, 1, k)

compute_key(ieee, seed, shift) == ZipXor(rotate(seed, shift), ieee \o ieee)

\* compute_seed rotating the way compute_key does
compute_seed_same_way(ieee, key, shift) == rotate(ZipXor(key, ieee \o ieee), shift)

compute_seed(ieee, key, shift) == rotate(ZipXor(key, ieee \o ieee), -shift)

MaxShift == 15

RECURSIVE find_key_shift_from(_, _, _, _)
find_key_shift_from(ieee, key, seed, shift) ==
    IF shift > MaxShift THEN None
    ELSE IF seed = compute_seed(ieee, key, shift) THEN shift
    ELSE find_key_shift_from(ieee, key, seed, shift + 1)

RECURSIVE find_key_shift_down(_, _, _, _)
find_key_shift_down(ieee, key, seed, shift) ==
    IF shift < 0 THEN None
    ELSE IF seed = compute_seed(ieee, key, shift) THEN shift
    ELSE find_key_shift_down(ieee, key, seed, shift - 1)

\* find_key_shift searching from 0x0F down
find_key_shift_last(ieee, key, seed) == find_key_shift_down(ieee, key, seed, MaxShift)

\* for shift in range(0x00, 0x0F + 1): the first shift that matches, else None
find_key_shift(ieee, key, seed) == find_key_shift_from(ieee, key, seed, 0)

\* ------------------------------------------------------------------ drawn inputs

\* Seed k has rotational period 1, 2, 4, 8, 16 for k = 1, 2, 3, 4, 5 (then again)
SeedPeriod(k) == IF (k - 1) % 5 = 0 THEN 1
                 ELSE IF (k - 1) % 5 = 1 THEN 2
                 ELSE IF (k - 1) % 5 = 2 THEN 4
                 ELSE IF (k - 1) % 5 = 3 THEN 8 ELSE 16

SeedOf(k) ==
    [i \in 1..KeyLen |-> ((17 * k) + (29 * ((i - 1) % SeedPeriod(k)))) % 256]

IeeeOf(k) == [i \in 1..IeeeLen |-> ((37 * k) + (11 * i)) % 256]

CipherSeeds == {SeedOf(k) : k \in 1..NumSeeds}
CipherIeees == {IeeeOf(k) : k \in 1..NumIeees}

\* ------------------------------------------------------------------ the engine, applied

CipherIdle == [pc |-> "drawn", ieee |-> IeeeOf(1), seed |-> SeedOf(1), shift |-> 0,
               key |-> NoKey, seedBack |-> NoSeed, found |-> None]

\* The rest of the program, at rest
NvEmpty == [seed |-> NoSeed, addrmgr |-> << >>, linkkey |-> << >>,
            tclk |-> << >>, keydata |-> << >>]
NoCall == [devices |-> << >>, counter_increment |-> 0, seed |-> NoSeed]
NoBuilt == [seed |-> NoSeed, hashed |-> << >>, keydata |-> << >>, linkkey |-> << >>,
            value |-> << >>]
NoResult == [status |-> "none", devices |-> << >>]
NoCounter == [status |-> "none", value |-> None]
NoKeyInfo == [Active |-> [KeySeqNum |-> 0, Key |-> NoKey], FrameCounter |-> 0]
TcIdle == [extended_pan_id |-> << >>, table |-> << >>, key_info |-> NoKeyInfo,
           table0 |-> << >>, key_info0 |-> NoKeyInfo, counter |-> None,
           written |-> "no", read |-> NoCounter]

RegistryAtRest ==
    /\ version = 330
    /\ nv = NvEmpty
    /\ refused = {}
    /\ nv0 = NvEmpty
    /\ call = NoCall
    /\ built = NoBuilt
    /\ pc = "idle"
    /\ writeLog = << >>
    /\ result = NoResult

registryVars == <<version, nv, refused, nv0, call, built, pc, writeLog, result>>

CipherInit ==
    /\ \E i \in CipherIeees, s \in CipherSeeds, n \in 0..MaxShift :
          cipher = [CipherIdle EXCEPT !.ieee = i, !.seed = s, !.shift = n]
    /\ RegistryAtRest
    /\ tc = TcIdle

ComputeKey ==
    /\ cipher.pc = "drawn"
    /\ cipher' = [cipher EXCEPT !.pc = "key",
                                !.key = compute_key(cipher.ieee, cipher.seed, cipher.shift)]
    /\ UNCHANGED <<registryVars, tc>>

ComputeSeed ==
    /\ cipher.pc = "key"
    /\ cipher' = [cipher EXCEPT !.pc = "seed",
                                !.seedBack = compute_seed(cipher.ieee, cipher.key, cipher.shift)]
    /\ UNCHANGED <<registryVars, tc>>

FindKeyShift ==
    /\ cipher.pc = "seed"
    /\ cipher' = [cipher EXCEPT !.pc = "found",
                                !.found = find_key_shift(cipher.ieee, cipher.key, cipher.seed)]
    /\ UNCHANGED <<registryVars, tc>>

CipherNext == ComputeKey \/ ComputeSeed \/ FindKeyShift

SpecCipher == CipherInit /\ [][CipherNext]_vars

\* a seed no rotation by 1..15 bytes maps to itself
NoSymmetry(seed) == \A k \in 1..MaxShift : rotate(seed, k) # seed

\* C1: compute_seed(addr, compute_key(addr, seed, shift), shift) is seed again, for
\* every address, seed and shift in 0..15.
C1_SeedRoundTrip ==
    cipher.pc \in {"seed", "found"} => cipher.seedBack = cipher.seed

C1_Witness ==
    /\ cipher.pc = "seed"
    /\ cipher.shift = 3
    /\ NoSymmetry(cipher.seed)
    /\ cipher.key # cipher.seed
    /\ cipher.seedBack = cipher.seed

\* C2 as stated: find_key_shift(addr, compute_key(addr, seed, shift), seed) is
\* exactly shift, for every address, seed and shift in 0..15.
C2_ExactShift ==
    cipher.pc = "found" => cipher.found = cipher.shift

\* C2 as amended: find_key_shift returns the least shift in 0..15 whose key is the
\* given key; that is the shift the key was made with whenever no smaller shift
\* makes the same key, and so for every seed without rotational symmetry.
C2_LeastShift ==
    cipher.pc = "found" =>
        /\ cipher.found \in 0..cipher.shift
        /\ compute_key(cipher.ieee, cipher.seed, cipher.found) = cipher.key
        /\ \A s \in 0..(cipher.found - 1) :
              compute_key(cipher.ieee, cipher.seed, s) # cipher.key
        /\ NoSymmetry(cipher.seed) => cipher.found = cipher.shift

C2_Witness ==
    /\ cipher.pc = "found"
    /\ cipher.shift = 3
    /\ NoSymmetry(cipher.seed)
    /\ cipher.found = 3

\* ------------------------------------------------------------------ records (types/named.py)

Default == 0
Assoc == 1
Security == 2
Binding == 4

NotAuthenticated == 0
AuthenticatedCBCK == 1
AuthenticatedEA == 2

\* KeyAttributes and KeyType of a TCLKDevEntry
PROVISIONAL_KEY == 0
DEFAULT_KEY == 255
KeyType_NONE == 0
KeyType_NWK == 1

NoNwk == 65535
ZeroIeee == [i \in 1..IeeeLen |-> 0]
FFIeee == [i \in 1..IeeeLen |-> 255]
ZeroKey == [i \in 1..KeyLen |-> 0]

\* flags & flag, for a single-bit flag
HasFlag(flags, flag) == (flags \div flag) % 2 = 1

AddrMgrEntry(type, nwkAddr, extAddr) ==
    [type |-> type, nwkAddr |-> nwkAddr, extAddr |-> extAddr]

EMPTY_ADDR_MGR_ENTRY == AddrMgrEntry(Default, NoNwk, FFIeee)

TCLKDevEntry(tx, rx, extAddr, keyAttributes, keyType, shift) ==
    [txFrmCntr |-> tx, rxFrmCntr |-> rx, extAddr |-> extAddr,
     keyAttributes |-> keyAttributes, keyType |-> keyType, SeedShift_IcIndex |-> shift]

APSKeyDataTableEntry(key, tx, rx) ==
    [Key |-> key, TxFrameCounter |-> tx, RxFrameCounter |-> rx]

APSLinkKeyTableEntry(index, nvid, auth) ==
    [AddressManagerIndex |-> index, LinkKeyNvId |-> nvid, AuthenticationState |-> auth]

StoredDevice(ieee, nwk, shift, key, tx, rx) ==
    [ieee |-> ieee, nwk |-> nwk, hashed_link_key_shift |-> shift, aps_link_key |-> key,
     tx_counter |-> tx, rx_counter |-> rx]

\* ------------------------------------------------------------------ APSLinkKeyTable, as bytes

U16(n) == <<n % 256, (n \div 256) % 256>>

EntryBytes(e) ==
    U16(e.AddressManagerIndex) \o U16(e.LinkKeyNvId) \o <<e.AuthenticationState>>

EntrySize == 5

RECURSIVE EntriesBytes(_)
EntriesBytes(entries) ==
    IF entries = << >> THEN << >>
    ELSE EntryBytes(Head(entries)) \o EntriesBytes(Tail(entries))

\* APSLinkKeyTable.serialize(): a uint16 count, then the entries
SerializeLinkKeyTable(entries) == U16(Len(entries)) \o EntriesBytes(entries)

\* bytes.ljust(width, b"\x00")
LJust(bytes, width) ==
    bytes \o [i \in 1..Max(width - Len(bytes), 0) |-> 0]

EntryAt(bytes, i) ==
    LET o == 2 + EntrySize * (i - 1)
    IN  APSLinkKeyTableEntry(bytes[o + 1] + 256 * bytes[o + 2],
                             bytes[o + 3] + 256 * bytes[o + 4],
                             bytes[o + 5])

\* APSLinkKeyTable.deserialize(): the count, then that many entries; what follows
\* them is left over.  Too few bytes, or an AuthenticationState that is no member
\* of the enumeration, is a ValueError.
DeserializeLinkKeyTable(bytes) ==
    IF Len(bytes) < 2 THEN [ok |-> FALSE, entries |-> << >>]
    ELSE LET n == bytes[1] + 256 * bytes[2]
         IN  IF Len(bytes) < 2 + EntrySize * n THEN [ok |-> FALSE, entries |-> << >>]
             ELSE LET es == [i \in 1..n |-> EntryAt(bytes, i)]
                  IN  [ok |-> \A i \in 1..n : es[i].AuthenticationState
                                  \in {NotAuthenticated, AuthenticatedCBCK, AuthenticatedEA},
                       entries |-> es]

\* ------------------------------------------------------------------ NVRAM accessor

LEGACY_APS_LINK_KEY_DATA_START == 513

\* write_table / osal_write_table: the values, then the fill value up to the
\* capacity the table already has; more values than capacity is an error
WriteTable(old, values, fill_value) ==
    [ok |-> Len(values) <= Len(old),
     table |-> [i \in 1..Len(old) |-> IF i <= Len(values) THEN values[i] ELSE fill_value]]

\* lst[i] of Python: a negative index counts from the end
PyInRange(lst, i) == i < Len(lst) /\ i >= 0 - Len(lst)
PyIndex(lst, i) == IF i >= 0 THEN lst[i + 1] ELSE lst[Len(lst) + i + 1]

\* ------------------------------------------------------------------ read_devices

Ok(devices) == [status |-> "ok", devices |-> devices]
Raised(error) == [status |-> error, devices |-> << >>]

\* devices[ieee], a dict in insertion order
HasDevice(devices, ieee) == \E i \in 1..Len(devices) : devices[i].ieee = ieee
SlotOf(devices, ieee) == CHOOSE i \in 1..Len(devices) : devices[i].ieee = ieee
PutDevice(devices, d) ==
    IF HasDevice(devices, d.ieee)
    THEN [devices EXCEPT ![SlotOf(devices, d.ieee)] = d]
    ELSE Append(devices, d)

\* ExNvIds.ADDRMGR as a table from 3.30 on, the single item OsalNvIds.ADDRMGR before
read_addr_mgr_entries(ver, nvram) ==
    IF ver >= 330 THEN nvram.addrmgr ELSE nvram.addrmgr

\* the loop over addr_mgr, passing over an entry of an unexpected type
RECURSIVE CollectDevices_skipping(_, _, _)
CollectDevices_skipping(addr_mgr, i, devices) ==
    IF i > Len(addr_mgr) THEN Ok(devices)
    ELSE LET entry == addr_mgr[i]
         IN  IF entry.nwkAddr = NoNwk \/ entry.type \notin {Assoc, Assoc + Security}
             THEN CollectDevices_skipping(addr_mgr, i + 1, devices)
             ELSE CollectDevices_skipping(addr_mgr, i + 1,
                      PutDevice(devices, StoredDevice(entry.extAddr, entry.nwkAddr,
                                                      None, NoKey, None, None)))

\* the loop over addr_mgr of read_devices
RECURSIVE CollectDevices(_, _, _)
CollectDevices(addr_mgr, i, devices) ==
    IF i > Len(addr_mgr) THEN Ok(devices)
    ELSE LET entry == addr_mgr[i]
         IN  IF entry.nwkAddr = NoNwk
             THEN CollectDevices(addr_mgr, i + 1, devices)
             ELSE IF entry.type \in {Assoc, Assoc + Security}
             THEN CollectDevices(addr_mgr, i + 1,
                      PutDevice(devices, StoredDevice(entry.extAddr, entry.nwkAddr,
                                                      None, NoKey, None, None)))
             ELSE Raised("ValueError")

KeyTuple(ieee, tx, rx, key) == [ieee |-> ieee, tx |-> tx, rx |-> rx, key |-> key]

\* what read_hashed_link_keys yields: nothing without a seed, else one tuple per
\* entry of the TCLK table whose extAddr is not all zero
read_hashed_link_keys(ver, nvram, tclk_seed) ==
    IF tclk_seed = NoSeed THEN << >>
    ELSE LET entries == IF ver = 330 THEN nvram.tclk ELSE nvram.tclk
             used == SelectSeq(entries, LAMBDA e : e.extAddr # ZeroIeee)
         IN  [i \in 1..Len(used) |->
                 KeyTuple(used[i].extAddr, used[i].txFrmCntr, used[i].rxFrmCntr,
                          ZipXor(rotate(tclk_seed, used[i].SeedShift_IcIndex),
                                 used[i].extAddr \o used[i].extAddr))]

\* the first async for of read_devices
RECURSIVE AttachHashed(_, _, _, _)
AttachHashed(keys, i, tclk_seed, devices) ==
    IF i > Len(keys) THEN Ok(devices)
    ELSE LET k == keys[i]
         IN  IF ~HasDevice(devices, k.ieee) THEN Raised("KeyError")
             ELSE LET old == devices[SlotOf(devices, k.ieee)]
                  IN  AttachHashed(keys, i + 1, tclk_seed,
                          PutDevice(devices,
                              StoredDevice(old.ieee, old.nwk,
                                           find_key_shift(k.ieee, k.key, tclk_seed),
                                           k.key, k.tx, k.rx)))

\* the loop over link_key_table of read_unhashed_link_keys
RECURSIVE JoinLinkKeys(_, _, _, _, _, _)
JoinLinkKeys(link_key_table, i, aps_key_data_table, base, addr_mgr_entries, keys) ==
    IF i > Len(link_key_table) THEN [status |-> "ok", keys |-> keys]
    ELSE LET entry == link_key_table[i]
         IN  IF ~HasFlag(entry.AuthenticationState, AuthenticatedCBCK)
             THEN JoinLinkKeys(link_key_table, i + 1, aps_key_data_table, base,
                               addr_mgr_entries, keys)
             ELSE IF ~PyInRange(aps_key_data_table, entry.LinkKeyNvId - base)
                     \/ ~PyInRange(addr_mgr_entries, entry.AddressManagerIndex)
             THEN [status |-> "IndexError", keys |-> keys]
             ELSE LET key_table_entry ==
                          PyIndex(aps_key_data_table, entry.LinkKeyNvId - base)
                      addr_mgr_entry ==
                          PyIndex(addr_mgr_entries, entry.AddressManagerIndex)
                  IN  IF ~HasFlag(addr_mgr_entry.type, Assoc)
                         \/ ~HasFlag(addr_mgr_entry.type, Security)
                      THEN [status |-> "AssertionError", keys |-> keys]
                      ELSE JoinLinkKeys(link_key_table, i + 1, aps_key_data_table, base,
                               addr_mgr_entries,
                               Append(keys, KeyTuple(addr_mgr_entry.extAddr,
                                                     key_table_entry.TxFrameCounter,
                                                     key_table_entry.RxFrameCounter,
                                                     key_table_entry.Key)))

\* the base read_unhashed_link_keys subtracts from an entry's LinkKeyNvId
link_key_offset_base(ver) == IF ver = 330 THEN 0 ELSE LEGACY_APS_LINK_KEY_DATA_START

\* read_unhashed_link_keys letting the refusal of the raw-key table through
read_unhashed_link_keys_uncaught(ver, nvram, refusedItems, addr_mgr_entries) ==
    IF "APS_KEY_DATA_TABLE" \in refusedItems
    THEN [status |-> "SecurityError", keys |-> << >>]
    ELSE LET parsed == DeserializeLinkKeyTable(nvram.linkkey)
         IN  IF ~parsed.ok THEN [status |-> "ValueError", keys |-> << >>]
             ELSE JoinLinkKeys(parsed.entries, 1, nvram.keydata,
                               link_key_offset_base(ver), addr_mgr_entries, << >>)

\* what read_unhashed_link_keys yields before it ends or raises
read_unhashed_link_keys(ver, nvram, refusedItems, addr_mgr_entries) ==
    IF "APS_KEY_DATA_TABLE" \in refusedItems THEN [status |-> "ok", keys |-> << >>]
    ELSE LET parsed == DeserializeLinkKeyTable(nvram.linkkey)
         IN  IF ~parsed.ok THEN [status |-> "ValueError", keys |-> << >>]
             ELSE JoinLinkKeys(parsed.entries, 1, nvram.keydata,
                               link_key_offset_base(ver), addr_mgr_entries, << >>)

\* the second async for of read_devices; the tuples yielded before the generator
\* raised are attached first
RECURSIVE AttachUnhashed(_, _, _, _)
AttachUnhashed(keys, i, after, devices) ==
    IF i > Len(keys) THEN (IF after = "ok" THEN Ok(devices) ELSE Raised(after))
    ELSE LET k == keys[i]
         IN  IF ~HasDevice(devices, k.ieee) THEN Raised("KeyError")
             ELSE LET old == devices[SlotOf(devices, k.ieee)]
                  IN  AttachUnhashed(keys, i + 1, after,
                          PutDevice(devices,
                              StoredDevice(old.ieee, old.nwk, old.hashed_link_key_shift,
                                           k.key, k.tx, k.rx)))

read_devices(ver, nvram, refusedItems) ==
    IF ver > 120 /\ "TCLK_SEED" \in refusedItems THEN Raised("SecurityError")
    ELSE LET tclk_seed == IF ver > 120 THEN nvram.seed ELSE NoSeed
             addr_mgr == read_addr_mgr_entries(ver, nvram)
             collected == CollectDevices(addr_mgr, 1, << >>)
         IN  IF collected.status # "ok" THEN collected
             ELSE LET hashed == AttachHashed(read_hashed_link_keys(ver, nvram, tclk_seed),
                                             1, tclk_seed, collected.devices)
                  IN  IF hashed.status # "ok" THEN hashed
                      ELSE LET unhashed == read_unhashed_link_keys(ver, nvram,
                                                                   refusedItems, addr_mgr)
                           IN  AttachUnhashed(unhashed.keys, 1, unhashed.status,
                                              hashed.devices)

\* ------------------------------------------------------------------ seed optimizer

Pair(ieee, key) == [ieee |-> ieee, key |-> key]
Candidate(count, seed) == [count |-> count, seed |-> seed]

\* sum(find_key_shift(i, k, seed) is not None for i, k in ieees_and_keys)
CountDerivable(ieees_and_keys, seed) ==
    Cardinality({j \in 1..Len(ieees_and_keys) :
        find_key_shift(ieees_and_keys[j].ieee, ieees_and_keys[j].key, seed) # None})

\* the candidates the generator yields from the i-th pair on: it stops after a
\* candidate from which every key derives
RECURSIVE IterSeedCandidatesFrom(_, _)
IterSeedCandidatesFrom(ieees_and_keys, i) ==
    IF i > Len(ieees_and_keys) THEN << >>
    ELSE LET seed == compute_seed(ieees_and_keys[i].ieee, ieees_and_keys[i].key, 0)
             count == CountDerivable(ieees_and_keys, seed)
         IN  <<Candidate(count, seed)>> \o
             (IF count = Len(ieees_and_keys) THEN << >>
              ELSE IterSeedCandidatesFrom(ieees_and_keys, i + 1))

\* the generator stopping after its first candidate, whatever its count
iter_seed_candidates_first(ieees_and_keys) ==
    LET seed == compute_seed(ieees_and_keys[1].ieee, ieees_and_keys[1].key, 0)
    IN  <<Candidate(CountDerivable(ieees_and_keys, seed), seed)>>

iter_seed_candidates(ieees_and_keys) == IterSeedCandidatesFrom(ieees_and_keys, 1)

\* a < b on bytes: lexicographic
BytesLess(a, b) ==
    \/ \E i \in 1..Min(Len(a), Len(b)) :
          /\ a[i] < b[i]
          /\ \A j \in 1..(i - 1) : a[j] = b[j]
    \/ /\ Len(a) < Len(b)
       /\ \A j \in 1..Len(a) : a[j] = b[j]

\* (count, seed) tuples, as Python orders them
CandidateLess(x, y) ==
    \/ x.count < y.count
    \/ x.count = y.count /\ BytesLess(x.seed, y.seed)

\* the first candidate, whatever its count
FirstCandidate(candidates) == candidates[1]

\* max() of a non-empty sequence of candidates
MaxCandidate(candidates) ==
    LET i == CHOOSE i \in 1..Len(candidates) :
                 \A j \in 1..Len(candidates) : ~CandidateLess(candidates[i], candidates[j])
    IN  candidates[i]

\* ------------------------------------------------------------------ write_devices: build

\* Python's truth value of d.aps_link_key
HasKey(d) == d.aps_link_key # NoKey

IeeesAndKeys(devices) ==
    LET keyed == SelectSeq(devices, HasKey)
    IN  [i \in 1..Len(keyed) |-> Pair(keyed[i].ieee, keyed[i].aps_link_key)]

\* the seed the tables are built against: the one supplied, else the best candidate,
\* else none
ChosenSeed(devices, seed) ==
    IF seed = NoSeed /\ IeeesAndKeys(devices) # << >>
    THEN MaxCandidate(iter_seed_candidates(IeeesAndKeys(devices))).seed
    ELSE seed

Tables(hashed, keydata, linkkey) ==
    [hashed |-> hashed, keydata |-> keydata, linkkey |-> linkkey]

\* the loop of write_devices taking the 3.30 key offsets from firmware 3.0 on
RECURSIVE BuildTables_new_base(_, _, _, _, _, _)
BuildTables_new_base(ver, devices, index, counter_increment, seed, tables) ==
    IF index >= Len(devices) THEN tables
    ELSE LET device == devices[index + 1]
             shift == find_key_shift(device.ieee, device.aps_link_key, seed)
             start == IF ver >= 300 THEN 0 ELSE LEGACY_APS_LINK_KEY_DATA_START
             offset == Len(tables.keydata)
         IN  IF ~HasKey(device)
             THEN BuildTables_new_base(ver, devices, index + 1, counter_increment, seed, tables)
             ELSE IF shift # None
             THEN BuildTables_new_base(ver, devices, index + 1, counter_increment, seed,
                      Tables(Append(tables.hashed,
                                    TCLKDevEntry(device.tx_counter + counter_increment,
                                                 device.rx_counter, device.ieee,
                                                 DEFAULT_KEY, KeyType_NWK, shift)),
                             tables.keydata, tables.linkkey))
             ELSE BuildTables_new_base(ver, devices, index + 1, counter_increment, seed,
                      Tables(tables.hashed,
                             Append(tables.keydata,
                                    APSKeyDataTableEntry(device.aps_link_key,
                                        device.tx_counter + counter_increment,
                                        device.rx_counter)),
                             Append(tables.linkkey,
                                    APSLinkKeyTableEntry(index, start + offset,
                                                         AuthenticatedCBCK))))

\* the loop over enumerate(devices) of write_devices, from the device at index on
RECURSIVE BuildTables(_, _, _, _, _, _)
BuildTables(ver, devices, index, counter_increment, seed, tables) ==
    IF index >= Len(devices) THEN tables
    ELSE LET device == devices[index + 1]
             shift == find_key_shift(device.ieee, device.aps_link_key, seed)
             start == IF ver > 300 THEN 0 ELSE LEGACY_APS_LINK_KEY_DATA_START
             offset == Len(tables.keydata)
         IN  IF ~HasKey(device)
             THEN BuildTables(ver, devices, index + 1, counter_increment, seed, tables)
             ELSE IF shift # None
             THEN BuildTables(ver, devices, index + 1, counter_increment, seed,
                      Tables(Append(tables.hashed,
                                    TCLKDevEntry(device.tx_counter + counter_increment,
                                                 device.rx_counter, device.ieee,
                                                 DEFAULT_KEY, KeyType_NWK, shift)),
                             tables.keydata, tables.linkkey))
             ELSE BuildTables(ver, devices, index + 1, counter_increment, seed,
                      Tables(tables.hashed,
                             Append(tables.keydata,
                                    APSKeyDataTableEntry(device.aps_link_key,
                                        device.tx_counter + counter_increment,
                                        device.rx_counter)),
                             Append(tables.linkkey,
                                    APSLinkKeyTableEntry(index, start + offset,
                                                         AuthenticatedCBCK))))

\* everything write_devices holds in memory when it reaches its first write
Build(ver, devices, counter_increment, seed, old_link_key_table) ==
    LET chosen == ChosenSeed(devices, seed)
        tables == BuildTables(ver, devices, 0, counter_increment, chosen,
                              Tables(<< >>, << >>, << >>))
    IN  [seed |-> chosen, hashed |-> tables.hashed, keydata |-> tables.keydata,
         linkkey |-> tables.linkkey,
         value |-> LJust(SerializeLinkKeyTable(tables.linkkey), Len(old_link_key_table))]

\* the entries counted, not their bytes
LinkKeyTableTooLarge_entries(link_key_table, old_link_key_table) ==
    Len(link_key_table) > Len(old_link_key_table)

\* len(link_key_table.serialize()) > len(old_link_key_table)
LinkKeyTableTooLarge(link_key_table, old_link_key_table) ==
    Len(SerializeLinkKeyTable(link_key_table)) > Len(old_link_key_table)

\* the address entries with a device that has no key left at type Default
AddrMgrEntries_default_type(devices) ==
    [i \in 1..Len(devices) |->
        AddrMgrEntry(IF HasKey(devices[i]) THEN Security + Assoc ELSE Default,
                     devices[i].nwk, devices[i].ieee)]

\* the entries write_addr_manager_entries makes of the devices
AddrMgrEntries(devices) ==
    [i \in 1..Len(devices) |->
        AddrMgrEntry(IF HasKey(devices[i]) THEN Security + Assoc ELSE Assoc,
                     devices[i].nwk, devices[i].ieee)]

\* write_addr_manager_entries letting the table grow to hold every device
write_addr_manager_entries_growing(ver, old_entries, devices) ==
    LET entries == AddrMgrEntries(devices)
    IN  [error |-> "",
         table |-> [i \in 1..Max(Len(old_entries), Len(entries)) |->
                       IF i <= Len(entries) THEN entries[i] ELSE EMPTY_ADDR_MGR_ENTRY]]

\* write_addr_manager_entries: write_table from 3.30 on; before, the single item
\* is rebuilt at its old length, and an index past it is an IndexError
write_addr_manager_entries(ver, old_entries, devices) ==
    LET entries == AddrMgrEntries(devices)
    IN  IF ver >= 330
        THEN LET w == WriteTable(old_entries, entries, EMPTY_ADDR_MGR_ENTRY)
             IN  [error |-> IF w.ok THEN "" ELSE "CapacityExceeded", table |-> w.table]
        ELSE [error |-> IF Len(entries) <= Len(old_entries) THEN "" ELSE "IndexError",
              table |-> [i \in 1..Len(old_entries) |->
                            IF i <= Len(entries) THEN entries[i]
                            ELSE EMPTY_ADDR_MGR_ENTRY]]

tclk_fill_value == TCLKDevEntry(0, 0, ZeroIeee, PROVISIONAL_KEY, KeyType_NONE, 0)
aps_key_data_fill_value == APSKeyDataTableEntry(ZeroKey, 0, 0)

\* ------------------------------------------------------------------ the registry's inputs

Versions == {120, 300, 330}

\* the seeds the coordinator may hold, both without rotational symmetry
NvSeeds == {SeedOf(5), SeedOf(10)}

UnrelatedKey(k) == [i \in 1..KeyLen |-> ((53 * k) + (7 * i * i)) % 256]

\* Device k: its key derives from SeedOf(5) at shift 1, 2 or 3, or is unrelated to
\* any seed, or it has no key
DeviceOf(k) ==
    LET kind == k % 5
    IN  IF kind = 0
        THEN StoredDevice(IeeeOf(k), 4096 + k, None, NoKey, None, None)
        ELSE IF kind = 4
        THEN StoredDevice(IeeeOf(k), 4096 + k, None, UnrelatedKey(k), 100 * k, (10 * k) + 1)
        ELSE StoredDevice(IeeeOf(k), 4096 + k, kind,
                          compute_key(IeeeOf(k), SeedOf(5), kind), 100 * k, (10 * k) + 1)

SetMin(S) == CHOOSE x \in S : \A y \in S : x <= y
SetMax(S) == CHOOSE x \in S : \A y \in S : x >= y

\* the devices numbered in K, in ascending or in descending order
RECURSIVE ListOf(_, _)
ListOf(K, ascending) ==
    IF K = {} THEN << >>
    ELSE LET k == IF ascending THEN SetMin(K) ELSE SetMax(K)
         IN  <<DeviceOf(k)>> \o ListOf(K \ {k}, ascending)

DeviceLists ==
    {ListOf(K, a) : K \in {S \in SUBSET (1..NumDevices) : Cardinality(S) <= MaxDevices},
                    a \in BOOLEAN}

CounterIncrements == {0, 2500}
SeedArgs == {NoSeed} \cup NvSeeds

Fill(n, value) == [i \in 1..n |-> value]

\* NVRAM with every table at its capacity and nothing stored
BlankNvram(seed, tight) ==
    LET less == IF tight THEN 1 ELSE 0
    IN  [seed |-> seed,
         addrmgr |-> Fill(AddrCap - less, EMPTY_ADDR_MGR_ENTRY),
         linkkey |-> LJust(SerializeLinkKeyTable(<< >>), 2 + (EntrySize * LinkCap)),
         tclk |-> Fill(TclkCap - less, tclk_fill_value),
         keydata |-> Fill(KeyCap - less, aps_key_data_fill_value)]

\* NVRAM after a complete write_devices of devices onto blank NVRAM
WrittenNvram(ver, seed, tight, devices) ==
    LET blank == BlankNvram(seed, tight)
        b == Build(ver, devices, 0, seed, blank.linkkey)
    IN  [seed |-> seed,
         addrmgr |-> write_addr_manager_entries(ver, blank.addrmgr, devices).table,
         linkkey |-> b.value,
         tclk |-> WriteTable(blank.tclk, b.hashed, tclk_fill_value).table,
         keydata |-> WriteTable(blank.keydata, b.keydata, aps_key_data_fill_value).table]

\* the registry an earlier session left: one raw key, one hashed key
PriorDevices == <<DeviceOf(4), DeviceOf(1)>>

\* that write_devices fits the blank tables
Fits(ver, seed, tight, devices) ==
    LET blank == BlankNvram(seed, tight)
        b == Build(ver, devices, 0, seed, blank.linkkey)
    IN  /\ Len(devices) <= Len(blank.addrmgr)
        /\ ~LinkKeyTableTooLarge(b.linkkey, blank.linkkey)
        /\ Len(b.hashed) <= Len(blank.tclk)
        /\ Len(b.keydata) <= Len(blank.keydata)

StartNvrams(ver) ==
    {BlankNvram(s, t) : s \in NvSeeds, t \in BOOLEAN}
    \cup {WrittenNvram(ver, p[1], p[2], PriorDevices) :
             p \in {q \in NvSeeds \X BOOLEAN : Fits(ver, q[1], q[2], PriorDevices)}}

\* ------------------------------------------------------------------ write_devices, read_devices

\* the indirection table written ahead of the address table
CommitOrder_link_first ==
    <<"APS_LINK_KEY_TABLE", "ADDRMGR", "TCLK_TABLE", "APS_KEY_DATA_TABLE">>

\* the order of the awaited writes of write_devices
CommitOrder == <<"ADDRMGR", "APS_LINK_KEY_TABLE", "TCLK_TABLE", "APS_KEY_DATA_TABLE">>

NextWrite ==
    IF pc = "commit" /\ Len(writeLog) < Len(CommitOrder)
    THEN CommitOrder[Len(writeLog) + 1] ELSE "none"

AfterWrite(log) == IF Len(log) = Len(CommitOrder) THEN "done" ELSE "commit"

Init ==
    /\ cipher = CipherIdle
    /\ version \in Versions
    /\ nv \in StartNvrams(version)
    /\ refused = {}
    /\ nv0 = nv
    /\ call = NoCall
    /\ built = NoBuilt
    /\ pc = "idle"
    /\ writeLog = << >>
    /\ result = NoResult
    /\ tc = TcIdle

\* write_devices up to its first write: the tables are built, the old indirection
\* table is read and the new one is measured against it
WriteDevicesBuild ==
    /\ pc = "idle"
    /\ result = NoResult
    /\ \E devices \in DeviceLists, inc \in CounterIncrements, seed \in SeedArgs :
          /\ call' = [devices |-> devices, counter_increment |-> inc, seed |-> seed]
          /\ built' = Build(version, devices, inc, seed, nv.linkkey)
          /\ pc' = IF LinkKeyTableTooLarge(built'.linkkey, nv.linkkey)
                   THEN "RuntimeError" ELSE "commit"
    /\ nv0' = nv
    /\ UNCHANGED <<cipher, version, nv, refused, writeLog, result, tc>>

WriteAddrMgr ==
    /\ NextWrite = "ADDRMGR"
    /\ result = NoResult
    /\ LET w == write_addr_manager_entries(version, nv.addrmgr, call.devices)
       IN  IF w.error = ""
           THEN /\ nv' = [nv EXCEPT !.addrmgr = w.table]
                /\ writeLog' = Append(writeLog, "ADDRMGR")
                /\ pc' = AfterWrite(writeLog')
           ELSE /\ pc' = w.error
                /\ UNCHANGED <<nv, writeLog>>
    /\ UNCHANGED <<cipher, version, refused, nv0, call, built, result, tc>>

WriteLinkKeyTable ==
    /\ NextWrite = "APS_LINK_KEY_TABLE"
    /\ result = NoResult
    /\ nv' = [nv EXCEPT !.linkkey = built.value]
    /\ writeLog' = Append(writeLog, "APS_LINK_KEY_TABLE")
    /\ pc' = AfterWrite(writeLog')
    /\ UNCHANGED <<cipher, version, refused, nv0, call, built, result, tc>>

WriteTclkTable ==
    /\ NextWrite = "TCLK_TABLE"
    /\ result = NoResult
    /\ LET w == WriteTable(nv.tclk, built.hashed, tclk_fill_value)
       IN  IF w.ok
           THEN /\ nv' = [nv EXCEPT !.tclk = w.table]
                /\ writeLog' = Append(writeLog, "TCLK_TABLE")
                /\ pc' = AfterWrite(writeLog')
           ELSE /\ pc' = "CapacityExceeded"
                /\ UNCHANGED <<nv, writeLog>>
    /\ UNCHANGED <<cipher, version, refused, nv0, call, built, result, tc>>

WriteKeyDataTable ==
    /\ NextWrite = "APS_KEY_DATA_TABLE"
    /\ result = NoResult
    /\ LET w == WriteTable(nv.keydata, built.keydata, aps_key_data_fill_value)
       IN  IF w.ok
           THEN /\ nv' = [nv EXCEPT !.keydata = w.table]
                /\ writeLog' = Append(writeLog, "APS_KEY_DATA_TABLE")
                /\ pc' = AfterWrite(writeLog')
           ELSE /\ pc' = "CapacityExceeded"
                /\ UNCHANGED <<nv, writeLog>>
    /\ UNCHANGED <<cipher, version, refused, nv0, call, built, result, tc>>

\* read_devices, on NVRAM as it stands: before a write_devices, after it, or after
\* it was interrupted (it does not resume)
ReadDevices ==
    /\ result = NoResult
    /\ result' = read_devices(version, nv, refused)
    /\ UNCHANGED <<cipher, version, nv, refused, nv0, call, built, pc, writeLog, tc>>

Next ==
    \/ WriteDevicesBuild
    \/ WriteAddrMgr
    \/ WriteLinkKeyTable
    \/ WriteTclkTable
    \/ WriteKeyDataTable
    \/ ReadDevices

Spec == Init /\ [][Next]_vars

\* ------------------------------------------------------------------ claims on write_devices

IsPrefix(a, b) == Len(a) <= Len(b) /\ SubSeq(b, 1, Len(a)) = a

Written(item) == \E i \in 1..Len(writeLog) : writeLog[i] = item

\* the devices of the call whose key derives from the seed the tables were built with
Derivable(d) ==
    HasKey(d) /\ find_key_shift(d.ieee, d.aps_link_key, built.seed) # None

\* C3: after write_devices(devices, counter_increment, seed), read_devices on the
\* same NVRAM, whose stored TCLK seed is the written seed, returns every device
\* whose key derives from that seed with the shift find_key_shift gave at write
\* time and with tx_counter = its tx_counter + counter_increment.
C3_HashedRoundTrip ==
    (pc = "done" /\ result # NoResult /\ nv.seed = built.seed) =>
        /\ result.status = "ok"
        /\ \A i \in 1..Len(call.devices) :
              Derivable(call.devices[i]) =>
                  \E j \in 1..Len(result.devices) :
                      /\ result.devices[j].ieee = call.devices[i].ieee
                      /\ result.devices[j].hashed_link_key_shift =
                             find_key_shift(call.devices[i].ieee,
                                            call.devices[i].aps_link_key, built.seed)
                      /\ result.devices[j].tx_counter =
                             call.devices[i].tx_counter + call.counter_increment

\* C4: when the serialized new indirection table is longer than the one stored,
\* write_devices fails with the capacity error and has written nothing: every
\* item and table of NVRAM is what it was before the call.
C4_CapacityErrorWritesNothing ==
    /\ (pc # "idle" /\ 2 + (EntrySize * Len(built.linkkey)) > Len(nv0.linkkey)) =>
           /\ pc = "RuntimeError"
           /\ nv = nv0
           /\ writeLog = << >>
    /\ pc = "RuntimeError" => nv = nv0

C4_Witness ==
    /\ pc = "RuntimeError"
    /\ Len(built.linkkey) = LinkCap + 1
    /\ Len(nv0.linkkey) = 2 + (EntrySize * LinkCap)
    /\ nv = nv0

\* C5: write_devices writes nothing before all four tables are built, and then
\* writes the address table, the indirection table, the hashed-key table and the
\* raw-key-data table, in this order.
C5_BuildThenCommitInOrder ==
    /\ IsPrefix(writeLog,
                <<"ADDRMGR", "APS_LINK_KEY_TABLE", "TCLK_TABLE", "APS_KEY_DATA_TABLE">>)
    /\ (writeLog # << >> \/ nv # nv0) =>
           /\ pc \in {"commit", "done", "CapacityExceeded", "IndexError"}
           /\ Len(built.hashed) + Len(built.keydata) = Len(IeeesAndKeys(call.devices))
           /\ Len(built.linkkey) = Len(built.keydata)
           /\ built.value = LJust(SerializeLinkKeyTable(built.linkkey), Len(nv0.linkkey))
    /\ ~Written("ADDRMGR") => nv.addrmgr = nv0.addrmgr
    /\ ~Written("APS_LINK_KEY_TABLE") => nv.linkkey = nv0.linkkey
    /\ ~Written("TCLK_TABLE") => nv.tclk = nv0.tclk
    /\ ~Written("APS_KEY_DATA_TABLE") => nv.keydata = nv0.keydata
    /\ nv.seed = nv0.seed

C5_Witness ==
    /\ pc = "done"
    /\ writeLog = <<"ADDRMGR", "APS_LINK_KEY_TABLE", "TCLK_TABLE", "APS_KEY_DATA_TABLE">>
    /\ nv.addrmgr # nv0.addrmgr
    /\ nv.linkkey # nv0.linkkey
    /\ nv.tclk # nv0.tclk
    /\ nv.keydata # nv0.keydata

\* every authenticated indirection entry names an occupied address slot that carries
\* the association and security flags and an existing raw-key record, and every
\* hashed entry in use names an address of the address table
StructurallyValid(ver, nvram) ==
    LET parsed == DeserializeLinkKeyTable(nvram.linkkey)
        base == link_key_offset_base(ver)
    IN  /\ parsed.ok
        /\ \A i \in 1..Len(parsed.entries) :
              parsed.entries[i].AuthenticationState = AuthenticatedCBCK =>
                  /\ parsed.entries[i].AddressManagerIndex < Len(nvram.addrmgr)
                  /\ LET a == nvram.addrmgr[parsed.entries[i].AddressManagerIndex + 1]
                     IN  /\ a.nwkAddr # NoNwk
                         /\ HasFlag(a.type, Assoc)
                         /\ HasFlag(a.type, Security)
                  /\ parsed.entries[i].LinkKeyNvId - base \in 0..(Len(nvram.keydata) - 1)
        /\ \A i \in 1..Len(nvram.tclk) :
              nvram.tclk[i].extAddr # ZeroIeee =>
                  \E j \in 1..Len(nvram.addrmgr) :
                      /\ nvram.addrmgr[j].nwkAddr # NoNwk
                      /\ nvram.addrmgr[j].extAddr = nvram.tclk[i].extAddr

\* C6: write_devices interrupted after its first, second or third write leaves
\* NVRAM structurally valid, and read_devices on it does not fail.
C6_InterruptedCommitStaysValid ==
    (pc = "commit" /\ writeLog # << >>) =>
        /\ StructurallyValid(version, nv)
        /\ result # NoResult => result.status = "ok"

\* NVRAM is valid before write_devices and after it has completed
ValidAtRest ==
    pc \in {"idle", "done"} =>
        /\ StructurallyValid(version, nv)
        /\ result # NoResult => result.status = "ok"

\* C10: called without a seed and with at least one key, write_devices uses a
\* candidate seed compute_seed(ieee, key, 0) from which as many of the input keys
\* derive as from any candidate (3, for three keys of one seed and one unrelated
\* key); with no key at all it chooses no seed and writes no hashed entry.
C10_ChosenSeedIsBestCandidate ==
    (pc # "idle" /\ call.seed = NoSeed) =>
        LET pairs == IeeesAndKeys(call.devices)
            CandidateOf(j) == compute_seed(pairs[j].ieee, pairs[j].key, 0)
        IN  IF pairs = << >>
            THEN /\ built.seed = NoSeed
                 /\ built.hashed = << >>
                 /\ Written("TCLK_TABLE") =>
                        \A i \in 1..Len(nv.tclk) : nv.tclk[i] = tclk_fill_value
            ELSE (writeLog = << >> /\ result = NoResult) =>
                 /\ \E j \in 1..Len(pairs) : built.seed = CandidateOf(j)
                 /\ \A j \in 1..Len(pairs) :
                        CountDerivable(pairs, CandidateOf(j))
                            <= CountDerivable(pairs, built.seed)
                 /\ {call.devices[i] : i \in 1..Len(call.devices)}
                        = {DeviceOf(k) : k \in 1..4} =>
                            CountDerivable(pairs, built.seed) = 3

C10_Witness ==
    /\ pc = "commit"
    /\ writeLog = << >>
    /\ call.seed = NoSeed
    /\ Len(call.devices) = 4
    /\ Len(IeeesAndKeys(call.devices)) = 4
    /\ CountDerivable(IeeesAndKeys(call.devices), built.seed) = 3
    /\ Len(built.hashed) = 3
    /\ Len(built.keydata) = 1

\* C11: write_devices never changes the capacity of a table.  The address table
\* keeps its number of entries and the indirection table its serialized length
\* (and so do the hashed-key and raw-key tables); once written, every address slot
\* past the devices is the empty entry (type 0, short address 0xFFFF, address all
\* FF) and every indirection byte past the serialized entries is zero; and a
\* device list longer than the address table never gets past the first write: the
\* call ends in an error with nothing written.
C11_CapacityNeverChanges ==
    /\ Len(nv.addrmgr) = Len(nv0.addrmgr)
    /\ Len(nv.linkkey) = Len(nv0.linkkey)
    /\ Len(nv.tclk) = Len(nv0.tclk)
    /\ Len(nv.keydata) = Len(nv0.keydata)
    /\ Written("ADDRMGR") =>
           /\ Len(call.devices) <= Len(nv.addrmgr)
           /\ \A i \in (Len(call.devices) + 1)..Len(nv.addrmgr) :
                  nv.addrmgr[i] = AddrMgrEntry(0, 65535, FFIeee)
    /\ Written("APS_LINK_KEY_TABLE") =>
           \A i \in (2 + (EntrySize * Len(built.linkkey)) + 1)..Len(nv.linkkey) :
               nv.linkkey[i] = 0
    /\ (pc # "idle" /\ Len(call.devices) > Len(nv0.addrmgr)) =>
           /\ pc \in {"commit", "RuntimeError", "IndexError", "CapacityExceeded"}
           /\ writeLog = << >>
           /\ nv = nv0

\* a registry of two devices replaced by one device: the second slot is emptied
C11_Witness ==
    /\ pc = "done"
    /\ version = 300
    /\ Len(call.devices) = 1
    /\ nv0.addrmgr[2] # EMPTY_ADDR_MGR_ENTRY
    /\ nv.addrmgr[2] = EMPTY_ADDR_MGR_ENTRY
    /\ Len(nv.addrmgr) = Len(nv0.addrmgr)
    /\ Len(nv.linkkey) = Len(nv0.linkkey)

\* more devices than address slots: the call fails at its first write
C11_Overflow ==
    /\ pc \in {"IndexError", "CapacityExceeded"}
    /\ Len(call.devices) > Len(nv0.addrmgr)
    /\ nv = nv0

\* the hashed-key entries and the indirection entries built for the device at slot
HashedOf(d) == {h \in 1..Len(built.hashed) : built.hashed[h].extAddr = d.ieee}
IndirectOf(slot) ==
    {l \in 1..Len(built.linkkey) : built.linkkey[l].AddressManagerIndex = slot - 1}

KeyCameBack(slot) ==
    \E j \in 1..Len(result.devices) :
        /\ result.devices[j].ieee = call.devices[slot].ieee
        /\ result.devices[j].aps_link_key = call.devices[slot].aps_link_key
        /\ result.devices[j].rx_counter = call.devices[slot].rx_counter

\* C15: on firmware 1.2, 3.0 and 3.30, after a completed write_devices, with or
\* without a supplied seed, read_devices on the same NVRAM returns every device
\* that was written with a key with that same key and the same rx_counter.
C15_KeyRoundTrip ==
    (pc = "done" /\ result # NoResult) =>
        /\ result.status = "ok"
        /\ \A slot \in 1..Len(call.devices) :
               HasKey(call.devices[slot]) => KeyCameBack(slot)

\* the same, where the seed the tables were built with is the seed NVRAM holds
\* and the firmware lets it be read
C15_KeyRoundTripUnderStoredSeed ==
    (pc = "done" /\ result # NoResult /\ version > 120 /\ nv.seed = built.seed) =>
        /\ result.status = "ok"
        /\ \A slot \in 1..Len(call.devices) :
               HasKey(call.devices[slot]) => KeyCameBack(slot)

\* firmware above 1.2: a key that was written hashed under a seed NVRAM does not
\* hold comes back as another key
C15_AnotherKeyCameBack ==
    /\ pc = "done"
    /\ version > 120
    /\ result.status = "ok"
    /\ nv.seed # built.seed
    /\ \E slot \in 1..Len(call.devices), j \in 1..Len(result.devices) :
           /\ HasKey(call.devices[slot])
           /\ result.devices[j].ieee = call.devices[slot].ieee
           /\ result.devices[j].aps_link_key # NoKey
           /\ result.devices[j].aps_link_key # call.devices[slot].aps_link_key

\* the devices of a list have pairwise distinct addresses and none has the short
\* address 0xFFFF
DistinctAndAddressed(devices) ==
    /\ \A i, j \in 1..Len(devices) : devices[i].ieee = devices[j].ieee => i = j
    /\ \A i \in 1..Len(devices) : devices[i].nwk # NoNwk

\* C16: after a completed write_devices of devices with pairwise distinct
\* addresses and short addresses other than 0xFFFF, read_devices returns one
\* device per written device, with the same ieee and nwk, in the order written,
\* and none for a fill record; a device written without a key comes back
\* without key, shift and counters.
C16_SameDevicesInOrder ==
    (pc = "done" /\ result # NoResult /\ DistinctAndAddressed(call.devices)) =>
        /\ result.status = "ok"
        /\ Len(result.devices) = Len(call.devices)
        /\ \A i \in 1..Len(call.devices) :
               /\ result.devices[i].ieee = call.devices[i].ieee
               /\ result.devices[i].nwk = call.devices[i].nwk
               /\ ~HasKey(call.devices[i]) =>
                      /\ result.devices[i].aps_link_key = NoKey
                      /\ result.devices[i].hashed_link_key_shift = None
                      /\ result.devices[i].tx_counter = None
                      /\ result.devices[i].rx_counter = None

\* three devices in descending order, the first without a key, read back from an
\* address table that has fill records after them
C16_Witness ==
    /\ pc = "done"
    /\ result.status = "ok"
    /\ Len(call.devices) = 3
    /\ ~HasKey(call.devices[1])
    /\ call.devices[1].nwk > call.devices[2].nwk
    /\ HasKey(call.devices[3])
    /\ Len(nv.addrmgr) > 3
    /\ nv.addrmgr[4] = EMPTY_ADDR_MGR_ENTRY
    /\ Len(result.devices) = 3
    /\ result.devices[1] = StoredDevice(call.devices[1].ieee, call.devices[1].nwk,
                                        None, NoKey, None, None)

\* ------------------------------------------------------------------ read_devices on any NVRAM

\* what the firmware may have left in an address slot: nothing, a device with or
\* without a key, entries of other types, a freed slot that kept its flags
AddrSlotChoices ==
    {EMPTY_ADDR_MGR_ENTRY,
     AddrMgrEntry(Assoc, 4097, IeeeOf(1)),
     AddrMgrEntry(Assoc + Security, 4097, IeeeOf(1)),
     AddrMgrEntry(Assoc + Security, 4098, IeeeOf(2)),
     AddrMgrEntry(Security, 4097, IeeeOf(1)),
     AddrMgrEntry(Assoc + Binding, 4098, IeeeOf(2)),
     AddrMgrEntry(Binding, NoNwk, IeeeOf(2))}

AddrTables ==
    {slots \o Fill(1, EMPTY_ADDR_MGR_ENTRY) : slots \in [1..ReadSlots -> AddrSlotChoices]}

\* a free TCLK slot, a device hashed at shift 1, one whose stored shift is past 15,
\* one the address table does not know
TclkTables ==
    {<<e, tclk_fill_value>> :
        e \in {tclk_fill_value,
               TCLKDevEntry(100, 11, IeeeOf(1), DEFAULT_KEY, KeyType_NWK, 1),
               TCLKDevEntry(200, 21, IeeeOf(2), DEFAULT_KEY, KeyType_NONE, 17),
               TCLKDevEntry(300, 31, IeeeOf(3), DEFAULT_KEY, KeyType_NWK, 3)}}

\* no indirection entry, an authenticated one for slot 0 or 1, one that is not
\* authenticated, one whose key record or address slot does not exist
LinkKeyTables(base) ==
    {LJust(SerializeLinkKeyTable(entries), 2 + (EntrySize * LinkCap)) :
        entries \in {<< >>,
                     <<APSLinkKeyTableEntry(0, base, AuthenticatedCBCK)>>,
                     <<APSLinkKeyTableEntry(1, base, AuthenticatedCBCK)>>,
                     <<APSLinkKeyTableEntry(0, base, NotAuthenticated)>>,
                     <<APSLinkKeyTableEntry(0, base + 5, AuthenticatedCBCK)>>,
                     <<APSLinkKeyTableEntry(7, base, AuthenticatedCBCK)>>}}

ReadNvrams(ver) ==
    {[seed |-> SeedOf(5), addrmgr |-> a, linkkey |-> l, tclk |-> t,
      keydata |-> <<APSKeyDataTableEntry(UnrelatedKey(4), 400, 41),
                    aps_key_data_fill_value>>] :
        a \in AddrTables, t \in TclkTables,
        l \in LinkKeyTables(IF ver = 330 THEN 0 ELSE LEGACY_APS_LINK_KEY_DATA_START)}

ReadInit ==
    /\ cipher = CipherIdle
    /\ version \in Versions
    /\ nv \in ReadNvrams(version)
    /\ refused \in SUBSET {"TCLK_SEED", "APS_KEY_DATA_TABLE"}
    /\ nv0 = nv
    /\ call = NoCall
    /\ built = NoBuilt
    /\ pc = "idle"
    /\ writeLog = << >>
    /\ result = NoResult
    /\ tc = TcIdle

ReadNext == ReadDevices

SpecRead == ReadInit /\ [][ReadNext]_vars

\* the address table's devices, as read_devices makes them before any key is attached
AddressDevices == CollectDevices(nv.addrmgr, 1, << >>)

\* C7: on firmware above 1.2, when the read of the TCLK seed is refused, read_devices
\* does not fail: it goes on without a seed, takes no hashed key, and returns the
\* devices of the address table.  (Stated where the raw-key table is refused as
\* well, so that the address table's devices are all there is to return.)
C7_RefusedSeedIsTolerated ==
    (/\ result # NoResult
     /\ version > 120
     /\ refused = {"TCLK_SEED", "APS_KEY_DATA_TABLE"}
     /\ AddressDevices.status = "ok") =>
        result = Ok(AddressDevices.devices)

\* the seed read_devices derives hashed keys from
CurrentSeed == IF version > 120 THEN nv.seed ELSE NoSeed

InUse(i) == nv.addrmgr[i].nwkAddr # NoNwk

\* C9: read_devices passes over every address slot whose short address is 0xFFFF
\* and takes each other entry only if its type is exactly Assoc or Assoc|Security;
\* any other type in a slot in use aborts the read with an error and no devices.
C9_AddressTableScreening ==
    result # NoResult =>
        IF \E i \in 1..Len(nv.addrmgr) :
               InUse(i) /\ nv.addrmgr[i].type \notin {Assoc, Assoc + Security}
        THEN /\ result.status # "ok"
             /\ result.devices = << >>
             /\ ~(version > 120 /\ "TCLK_SEED" \in refused) => result.status = "ValueError"
        ELSE result.status = "ok" =>
             /\ {result.devices[j].ieee : j \in 1..Len(result.devices)}
                    = {nv.addrmgr[i].extAddr : i \in {k \in 1..Len(nv.addrmgr) : InUse(k)}}
             /\ \A j \in 1..Len(result.devices) :
                    \E i \in 1..Len(nv.addrmgr) :
                        /\ InUse(i)
                        /\ nv.addrmgr[i].extAddr = result.devices[j].ieee
                        /\ nv.addrmgr[i].nwkAddr = result.devices[j].nwk

C9_Witness ==
    /\ result.status = "ValueError"
    /\ nv.addrmgr[1] = AddrMgrEntry(Binding, NoNwk, IeeeOf(2))
    /\ nv.addrmgr[2] = AddrMgrEntry(Assoc + Binding, 4098, IeeeOf(2))

\* the hashed-key entries in use that name the address ieee
TclkEntriesOf(ieee) == {i \in 1..Len(nv.tclk) : nv.tclk[i].extAddr = ieee /\ ieee # ZeroIeee}

\* C12: when the read of the raw-key-data table is refused (and that of the seed is
\* not), the unhashed-key step contributes nothing and does not fail: read_devices
\* ends as its address and hashed-key steps alone make it end, whatever the
\* indirection table holds; when these succeed it returns every device of the
\* address table, each with the key and counters of its hashed-key entry and
\* with none when it has no such entry.
C12_RefusedRawKeysYieldNothing ==
    (/\ result # NoResult
     /\ "APS_KEY_DATA_TABLE" \in refused
     /\ ~(version > 120 /\ "TCLK_SEED" \in refused)) =>
        /\ result.status \notin {"SecurityError", "IndexError", "AssertionError"}
        /\ AddressDevices.status # "ok" => result = AddressDevices
        /\ AddressDevices.status = "ok" =>
               result = AttachHashed(read_hashed_link_keys(version, nv, CurrentSeed),
                                     1, CurrentSeed, AddressDevices.devices)
        /\ result.status = "ok" =>
               /\ Len(result.devices) = Len(AddressDevices.devices)
               /\ \A j \in 1..Len(result.devices) :
                      LET d == result.devices[j]
                      IN  /\ d.ieee = AddressDevices.devices[j].ieee
                          /\ d.nwk = AddressDevices.devices[j].nwk
                          /\ IF CurrentSeed # NoSeed /\ TclkEntriesOf(d.ieee) # {}
                             THEN \E i \in TclkEntriesOf(d.ieee) :
                                      /\ d.aps_link_key =
                                             compute_key(d.ieee, CurrentSeed,
                                                         nv.tclk[i].SeedShift_IcIndex)
                                      /\ d.tx_counter = nv.tclk[i].txFrmCntr
                                      /\ d.rx_counter = nv.tclk[i].rxFrmCntr
                             ELSE /\ d.aps_link_key = NoKey
                                  /\ d.tx_counter = None
                                  /\ d.rx_counter = None

\* the raw-key table refused, an indirection entry that names an address slot
\* that does not exist, and a device that has its key from the hashed-key table
C12_Witness ==
    /\ result.status = "ok"
    /\ version = 300
    /\ refused = {"APS_KEY_DATA_TABLE"}
    /\ DeserializeLinkKeyTable(nv.linkkey).entries
           = <<APSLinkKeyTableEntry(7, LEGACY_APS_LINK_KEY_DATA_START, AuthenticatedCBCK)>>
    /\ \E j \in 1..Len(result.devices) :
           /\ result.devices[j].aps_link_key = compute_key(IeeeOf(1), SeedOf(5), 1)
           /\ result.devices[j].rx_counter = 11

\* ------------------------------------------------------------------ firmware outside the dispatch set

\* firmware versions 2.0, 3.1 and 3.4: none of 1.2, 3.0, 3.30
OtherVersions == {200, 310, 340}

FirmwareInit ==
    /\ cipher = CipherIdle
    /\ version \in OtherVersions
    /\ nv \in {BlankNvram(s, t) : s \in NvSeeds, t \in BOOLEAN}
    /\ refused = {}
    /\ nv0 = nv
    /\ call = NoCall
    /\ built = NoBuilt
    /\ pc = "idle"
    /\ writeLog = << >>
    /\ result = NoResult
    /\ tc = TcIdle

SpecFirmware == FirmwareInit /\ [][Next]_vars

\* C13: on a firmware version that is none of 1.2, 3.0, 3.30, read_devices and
\* write_devices fail with UnsupportedFirmware before any NVRAM read or write:
\* read_devices returns no devices, write_devices builds and writes nothing.
C13_UnsupportedFirmwareRejected ==
    version \notin {120, 300, 330} =>
        /\ pc \in {"idle", "UnsupportedFirmware"}
        /\ writeLog = << >>
        /\ nv = nv0
        /\ result # NoResult => result.status = "UnsupportedFirmware"

\* what the code does instead: the comparisons place the version in a known layout
C13_LayoutSelectedSilently ==
    /\ version = 310
    /\ pc = "done"
    /\ Len(writeLog) = 4
    /\ nv # nv0

\* ------------------------------------------------------------------ the seed optimizer, applied

\* Pair k: its key derives from SeedOf(5), from SeedOf(10) (two pairs in five) or
\* from SeedOf(2), a seed of rotational period 2, at shift k, or is unrelated to
\* any seed
PairOf(k) ==
    LET kind == k % 5
    IN  IF kind = 0 THEN Pair(IeeeOf(k), UnrelatedKey(k))
        ELSE IF kind = 1 THEN Pair(IeeeOf(k), compute_key(IeeeOf(k), SeedOf(5), k % 16))
        ELSE IF kind = 4 THEN Pair(IeeeOf(k), compute_key(IeeeOf(k), SeedOf(2), k % 16))
        ELSE Pair(IeeeOf(k), compute_key(IeeeOf(k), SeedOf(10), (3 * k) % 16))

\* every list of 1..MaxPairs different pairs, in every order
PairLists ==
    {[i \in DOMAIN g |-> PairOf(g[i])] :
        g \in {f \in UNION {[1..m -> 1..NumPairs] : m \in 1..MaxPairs} :
                  \A i, j \in DOMAIN f : f[i] = f[j] => i = j}}

\* the 16-byte seeds from which a key of the list derives at all (every rotation of
\* every pair's seed at shift 0), and seeds from which none derives
RivalSeeds(ieees_and_keys) ==
    {rotate(compute_seed(ieees_and_keys[j].ieee, ieees_and_keys[j].key, 0), r) :
        j \in 1..Len(ieees_and_keys), r \in 0..MaxShift}
    \cup {ZeroKey, SeedOf(1), SeedOf(3)}

OptimizerIdle == [pc |-> "pairs", pairs |-> << >>, best |-> Candidate(0, NoSeed),
                  rival |-> NoSeed, rivalCount |-> 0]

OptimizerInit ==
    /\ \E pairs \in PairLists : cipher = [OptimizerIdle EXCEPT !.pairs = pairs]
    /\ RegistryAtRest
    /\ tc = TcIdle

\* _, seed = max(iter_seed_candidates(ieees_and_keys))
SelectSeed ==
    /\ cipher.pc = "pairs"
    /\ cipher' = [cipher EXCEPT !.pc = "selected",
                                !.best = MaxCandidate(iter_seed_candidates(cipher.pairs))]
    /\ UNCHANGED <<registryVars, tc>>

\* the count of the keys that derive from some other seed
CountRival ==
    /\ cipher.pc = "selected"
    /\ \E seed \in RivalSeeds(cipher.pairs) :
          cipher' = [cipher EXCEPT !.pc = "counted",
                                   !.rival = seed,
                                   !.rivalCount = CountDerivable(cipher.pairs, seed)]
    /\ UNCHANGED <<registryVars, tc>>

OptimizerNext == SelectSeed \/ CountRival

SpecOptimizer == OptimizerInit /\ [][OptimizerNext]_vars

\* C17: for a non-empty list of (address, key) pairs, the seed of the maximum
\* candidate of iter_seed_candidates is one from which as many keys of the list
\* derive as from any 16-byte seed: the count that candidate carries is the
\* number of keys find_key_shift finds a shift for under its seed, and no seed
\* has a larger number.
C17_NoSeedBeatsTheSelected ==
    /\ cipher.pc \in {"selected", "counted"} =>
           /\ cipher.best.count = CountDerivable(cipher.pairs, cipher.best.seed)
           /\ cipher.best.count >= 1
    /\ cipher.pc = "counted" => cipher.rivalCount <= cipher.best.count

\* the first pair's candidate derives one key, the selected seed two, and so does
\* a seed that is no candidate
C17_Witness ==
    /\ cipher.pc = "counted"
    /\ Len(cipher.pairs) = 3
    /\ CountDerivable(cipher.pairs,
                      compute_seed(cipher.pairs[1].ieee, cipher.pairs[1].key, 0)) = 1
    /\ cipher.best.count = 2
    /\ cipher.rivalCount = 2
    /\ \A j \in 1..3 :
           cipher.rival # compute_seed(cipher.pairs[j].ieee, cipher.pairs[j].key, 0)

\* ------------------------------------------------------------------ the Trust Center frame counter

NwkSecMaterialDesc(FrameCounter, ExtendedPanID) ==
    [FrameCounter |-> FrameCounter, ExtendedPanID |-> ExtendedPanID]

NwkActiveKeyItems(KeySeqNum, Key, FrameCounter) ==
    [Active |-> [KeySeqNum |-> KeySeqNum, Key |-> Key], FrameCounter |-> FrameCounter]

\* global_entry = None, best_entry = None
NoEntry == NwkSecMaterialDesc(None, << >>)

OkCounter(value) == [status |-> "ok", value |-> value]
RaisedCounter(error) == [status |-> error, value |-> None]

\* the async for of read_tc_frame_counter from the i-th entry on, and what follows it
RECURSIVE ReadCounterFrom(_, _, _, _)
ReadCounterFrom(entries, i, extended_pan_id, global_entry) ==
    IF i > Len(entries)
    THEN (IF global_entry = NoEntry THEN RaisedCounter("RuntimeError")
          ELSE OkCounter(global_entry.FrameCounter))
    ELSE IF entries[i].ExtendedPanID = extended_pan_id
    THEN OkCounter(entries[i].FrameCounter)
    ELSE IF entries[i].ExtendedPanID = FFIeee
    THEN ReadCounterFrom(entries, i + 1, extended_pan_id, entries[i])
    ELSE ReadCounterFrom(entries, i + 1, extended_pan_id, global_entry)

\* the NWKKEY item on 1.2; the security material table, legacy on 3.0, else
read_tc_frame_counter(ver, extended_pan_id, table, key_info) ==
    IF ver = 120 THEN OkCounter(key_info.FrameCounter)
    ELSE LET entries == IF ver = 300 THEN table ELSE table
         IN  ReadCounterFrom(entries, 1, extended_pan_id, NoEntry)

Found(broke, best_entry, best_address) ==
    [broke |-> broke, best_entry |-> best_entry, best_address |-> best_address]

\* the async for of write_tc_frame_counter from the i-th entry on; address is
\* counted from the table's first entry (on 3.0, from its first nvid)
RECURSIVE FindEntryFrom(_, _, _, _, _, _)
FindEntryFrom(entries, i, address, extended_pan_id, best_entry, best_address) ==
    IF i > Len(entries) THEN Found(FALSE, best_entry, best_address)
    ELSE IF entries[i].ExtendedPanID = extended_pan_id
    THEN Found(TRUE, entries[i], address)
    ELSE IF best_entry = NoEntry /\ entries[i].ExtendedPanID = FFIeee
    THEN FindEntryFrom(entries, i + 1, address + 1, extended_pan_id, entries[i], address)
    ELSE FindEntryFrom(entries, i + 1, address + 1, extended_pan_id,
                       best_entry, best_address)

\* write_tc_frame_counter: the loop's else clause raises whenever the loop ends
\* without break
write_tc_frame_counter(ver, extended_pan_id, table, key_info, counter) ==
    IF ver = 120
    THEN [status |-> "ok", table |-> table,
          key_info |-> [key_info EXCEPT !.FrameCounter = counter]]
    ELSE LET found == FindEntryFrom(table, 1, 0, extended_pan_id, NoEntry, None)
         IN  IF ~found.broke
             THEN [status |-> "RuntimeError", table |-> table, key_info |-> key_info]
             ELSE [status |-> "ok",
                   table |-> [table EXCEPT ![found.best_address + 1] =
                                 [found.best_entry EXCEPT !.FrameCounter = counter]],
                   key_info |-> key_info]

\* the network's extended PAN id, that of another network
PanA == [i \in 1..IeeeLen |-> 160 + i]
PanB == [i \in 1..IeeeLen |-> 176 + i]

\* every table of up to MaxEntries entries, each for this network, global, or for
\* another network; the entry at position i has a frame counter of its own
SecMaterialTables ==
    {[i \in DOMAIN g |-> NwkSecMaterialDesc((1000 * i) + g[i][1], g[i])] :
        g \in UNION {[1..m -> {PanA, FFIeee, PanB}] : m \in 0..MaxEntries}}

Counters == {5, 70000}

CounterInit ==
    /\ cipher = CipherIdle
    /\ version \in Versions
    /\ nv = NvEmpty
    /\ refused = {}
    /\ nv0 = NvEmpty
    /\ call = NoCall
    /\ built = NoBuilt
    /\ pc = "idle"
    /\ writeLog = << >>
    /\ result = NoResult
    /\ \E table \in SecMaterialTables, pan \in {PanA, FFIeee} :
          tc = [TcIdle EXCEPT !.extended_pan_id = pan,
                             !.table = table, !.table0 = table,
                             !.key_info = NwkActiveKeyItems(0, SeedOf(5), 900),
                             !.key_info0 = NwkActiveKeyItems(0, SeedOf(5), 900)]

WriteTcFrameCounter ==
    /\ tc.written = "no"
    /\ tc.read = NoCounter
    /\ \E counter \in Counters :
          LET w == write_tc_frame_counter(version, tc.extended_pan_id, tc.table,
                                          tc.key_info, counter)
          IN  tc' = [tc EXCEPT !.counter = counter, !.written = w.status,
                               !.table = w.table, !.key_info = w.key_info]
    /\ UNCHANGED <<cipher, registryVars>>

ReadTcFrameCounter ==
    /\ tc.read = NoCounter
    /\ tc' = [tc EXCEPT !.read = read_tc_frame_counter(version, tc.extended_pan_id,
                                                        tc.table, tc.key_info)]
    /\ UNCHANGED <<cipher, registryVars>>

CounterNext == WriteTcFrameCounter \/ ReadTcFrameCounter

SpecCounter == CounterInit /\ [][CounterNext]_vars

\* what read_tc_frame_counter makes of the table as it was before the write
ReadBefore ==
    read_tc_frame_counter(version, tc.extended_pan_id, tc.table0, tc.key_info0)

\* the write changed the frame counter of one entry to the counter given and
\* nothing else
OneCounterChanged ==
    /\ tc.written = "ok"
    /\ tc.key_info = tc.key_info0
    /\ Len(tc.table) = Len(tc.table0)
    /\ \E i \in 1..Len(tc.table) :
           /\ tc.table[i] = [tc.table0[i] EXCEPT !.FrameCounter = tc.counter]
           /\ \A j \in 1..Len(tc.table) : j # i => tc.table[j] = tc.table0[j]

\* C18: on firmware other than 1.2, on a security material table from which
\* read_tc_frame_counter returns a counter, write_tc_frame_counter(c) succeeds,
\* changes the FrameCounter of one entry and nothing else, and a
\* read_tc_frame_counter that follows returns c.
C18_CounterWriteThenRead ==
    (version # 120 /\ tc.written # "no" /\ ReadBefore.status = "ok") =>
        /\ OneCounterChanged
        /\ tc.read # NoCounter => tc.read = OkCounter(tc.counter)

\* the same, on tables that hold an entry for the network's extended PAN id
C18_CounterWriteThenReadOnOwnEntry ==
    (/\ version # 120
     /\ tc.written # "no"
     /\ \E i \in 1..Len(tc.table0) : tc.table0[i].ExtendedPanID = tc.extended_pan_id) =>
        /\ OneCounterChanged
        /\ tc.read # NoCounter => tc.read = OkCounter(tc.counter)

\* a table with a global entry and none for the network: the read gives the
\* global entry's counter, the write raises and leaves the table as it was
C18_GlobalEntryOnly ==
    /\ version # 120
    /\ ReadBefore.status = "ok"
    /\ tc.written = "RuntimeError"
    /\ tc.table = tc.table0
    /\ tc.read = ReadBefore

====
